---- MODULE Spec2Model ----
(***************************************************************************)
(* Priority Service of the museum-solo-ai backend                          *)
(* (services/priority-service): the urgency scorer and the daily schedule  *)
(* planner.                                                                *)
(*                                                                         *)
(* Units.  Wall-clock time is counted in ticks, TicksPerDay ticks to the   *)
(* day; a due_date is a calendar day number and `new Date(due_date)` is    *)
(* midnight (UTC) of that day, tick due_date * TicksPerDay.                *)
(* estimated_hours is counted in 1/HoursScale hours; such dyadic values    *)
(* are exact in IEEE-754 double arithmetic, so sums of hours are modelled  *)
(* by integer sums.  The urgency score is NOT exact in double arithmetic   *)
(* (0.4, 0.3, 0.2 and 0.1 are not representable), so it is modelled by an  *)
(* exact emulation of round-to-nearest-even double arithmetic (Dbl below). *)
(***************************************************************************)
EXTENDS Integers, Sequences, FiniteSets, TLC

\* ------------------------------------------------------------------ bounds
MaxObservers == 3    \* observer objects created by subscribe
MaxClients == 2      \* clients of GET /api/sync/stream
MaxSetStates == 2    \* calls of setState
MaxTimers == 16      \* timers and pending init() calls the dashboard page is followed up to
MaxSlotTasks == 3    \* longest slot task list balanced on its own
MaxTasks == 4        \* longest mixed task list drawn as input
MaxBulk == 12        \* longest two-run "bulk" task list drawn as input
TicksPerDay == 2     \* clock resolution
HoursScale == 2      \* estimated_hours resolution (units per hour)

\* An optional field is <<>> when absent (undefined / SQL NULL) and <<v>>
\* when it holds v.
NULL == <<>>

Some(v) == <<v>>

\* JavaScript truthiness of an optional number: absent and 0 are falsy
Falsy(x) == x = NULL \/ x[1] = 0

\* x || 0
OrZero(x) == IF Falsy(x) THEN 0 ELSE x[1]

\* ------------------------------------------------------------- data model
TaskCategory == {"exhibition", "education", "collection", "publication", "research", "admin"}

TaskStatus == {"pending", "in_progress", "completed", "paused", "cancelled"}

\* ------------------------------------------- IEEE-754 double emulation
\* A double v that approximates a multiple of 0.1 is the record
\* [t |-> tenths, e |-> err] with v = t/10 + e / (10 * 2^56) exactly.
\* Every double in [1/16, 16) is a multiple of 2^-56, so e is an integer.
\* 2^n mod 20 for n >= 2 (the residues 16, 12, 4, 8 repeat with period 4)
Pow2Mod20(n) == <<16, 12, 4, 8>>[(n % 4) + 1]

\* value >= k/10
DblGeTenths(x, k) == x.t > k \/ (x.t = k /\ x.e >= 0)

\* ulp of the binade of x is 2^(UlpExp(x) - 56)
UlpExp(x) ==
  IF DblGeTenths(x, 80) THEN 7
  ELSE IF DblGeTenths(x, 40) THEN 6
  ELSE IF DblGeTenths(x, 20) THEN 5
  ELSE IF DblGeTenths(x, 10) THEN 4
  ELSE IF DblGeTenths(x, 5) THEN 3
  ELSE IF x.t >= 3 THEN 2
  ELSE IF x.t >= 2 THEN 1
  ELSE 0

\* x moved to a neighbouring multiple of the ulp, given R2, the residue of
\* x modulo twice the ulp, both in units of 2^-56 / 10 (M is the ulp):
\* to the nearest multiple, a tie to the even one
RoundResidue(x, M, R2) ==
  IF 2 * (R2 % M) < M THEN [t |-> x.t, e |-> x.e - (R2 % M)]
  ELSE IF 2 * (R2 % M) > M THEN [t |-> x.t, e |-> x.e + M - (R2 % M)]
  ELSE IF R2 >= M THEN [t |-> x.t, e |-> x.e + M - (R2 % M)]
  ELSE [t |-> x.t, e |-> x.e - (R2 % M)]

\* x rounded to a multiple of 2^(m - 56)
RoundToUlp(x, m) ==
  RoundResidue(x, 10 * 2^m,
               (2^m * ((x.t * Pow2Mod20(56 - m)) % 20) + x.e) % (20 * 2^m))

\* round the exact real [t, e] to the nearest double, ties to even
DblRound(x) == RoundToUlp(x, UlpExp(x))

\* n * w for a small integer n and a double w
DblMul(n, w) == DblRound([t |-> n * w.t, e |-> n * w.e])

DblAdd(a, b) == DblRound([t |-> a.t + b.t, e |-> a.e + b.e])

DblSub(a, b) == DblRound([t |-> a.t - b.t, e |-> a.e - b.e])

DblLess(a, b) == a.t < b.t \/ (a.t = b.t /\ a.e < b.e)

\* the double nearest to k/10
DblTenths(k) == DblRound([t |-> k, e |-> 0])

\* the literals 0.40, 0.30, 0.20, 0.10 as doubles
weights ==
  [deadline |-> DblTenths(4), impact |-> DblTenths(3),
   dependency |-> DblTenths(2), complexity |-> DblTenths(1)]

\* ------------------------------------------------------ program constants
TopN == 3                    \* scoredTasks.slice(0, 3)

ScheduleCandidates == 10     \* priorityTasks.slice(0, 10)

maxHoursPerSlot == 3

VARIABLES
  tasks,        \* the Task[] handed to the service (rows of the tasks table)
  now,          \* wall clock, in ticks
  op,           \* the service method that returned last ("idle": none yet)
  scored,       \* last result of calculateUrgencyScore, or NULL
  topPriority,  \* last result of calculateTopPriorityTasks
  topTasks,     \* the local topTasks of the last generateDailySchedule
  schedule,     \* last result of generateDailySchedule, or NULL
  suggestion    \* last call of suggestTaskTime with its result, or NULL

\* the state of the Data Service instance being called and of the SSE streams
VARIABLES
  observers,      \* this.observers: the subscribed observer objects, in order
  nextObserver,   \* the observer object the next subscribe creates
  sseController,  \* this.sseController: NULL or the stream it writes to
  clients,        \* the clients connected to GET /api/sync/stream
  received,       \* per client, the events enqueued on its stream
  stateValue,     \* this.state[key], NULL before the first setState
  kv,             \* the value persisted in KV under state:key, or NULL
  phase,          \* where the setState in flight stands ("idle": none)
  idx,            \* the index forEach visits next in notifyObservers
  invoked,        \* the observers the setState in flight has invoked, in order
  snapshot,       \* this.observers as it was when the setState in flight began
  setStates,      \* calls of setState so far; the n-th call sets the value n
  threw,          \* the observers whose callback threw during the setState in flight
  kvFailed        \* whether KV.put failed during the setState in flight

\* the dashboard page
VARIABLES
  loading,        \* calls of init() awaiting their four loads
  timers,         \* active setInterval timers
  eventSources    \* open EventSource connections

\* one slot handed to balanceWorkload with hours as decimal fractions
VARIABLES
  slotHours,      \* estimated_hours || 0 of the slot's tasks, in tenths of an hour
  keptHours       \* the same for the tasks balanceWorkload left in the slot, or NULL

priorityVars == <<tasks, now, op, scored, topPriority, topTasks, schedule, suggestion>>

dataVars ==
  <<observers, nextObserver, sseController, clients, received, stateValue, kv,
    phase, idx, invoked, snapshot, setStates, threw, kvFailed>>

dashVars == <<loading, timers, eventSources>>

balanceVars == <<slotHours, keptHours>>

vars == <<priorityVars, dataVars, dashVars, balanceVars>>

\* --------------------------------------------------------- urgency scorer
\* mutant: the band edges exclusive (< for <=)
getDeadlineScore_Exclusive(dueDate) ==
  IF dueDate = NULL THEN 2
  ELSE LET ticksUntilDue == dueDate[1] * TicksPerDay - now
       IN IF ticksUntilDue < 0 THEN 10
          ELSE IF ticksUntilDue < 1 * TicksPerDay THEN 9
          ELSE IF ticksUntilDue < 3 * TicksPerDay THEN 8
          ELSE IF ticksUntilDue < 7 * TicksPerDay THEN 6
          ELSE IF ticksUntilDue < 14 * TicksPerDay THEN 4
          ELSE IF ticksUntilDue < 30 * TicksPerDay THEN 3
          ELSE 2

getDeadlineScore_BandsSwapped(dueDate) ==
  IF dueDate = NULL THEN 2
  ELSE LET ticksUntilDue == dueDate[1] * TicksPerDay - now
       IN IF ticksUntilDue < 0 THEN 10
          ELSE IF ticksUntilDue <= 1 * TicksPerDay THEN 9
          ELSE IF ticksUntilDue <= 3 * TicksPerDay THEN 6
          ELSE IF ticksUntilDue <= 7 * TicksPerDay THEN 8
          ELSE IF ticksUntilDue <= 14 * TicksPerDay THEN 4
          ELSE IF ticksUntilDue <= 30 * TicksPerDay THEN 3
          ELSE 2

\* mutant: a task due within a day scored like an overdue one
getDeadlineScore_DueSoonTen(dueDate) ==
  IF dueDate = NULL THEN 2
  ELSE LET ticksUntilDue == dueDate[1] * TicksPerDay - now
       IN IF ticksUntilDue <= 1 * TicksPerDay THEN 10
          ELSE IF ticksUntilDue <= 3 * TicksPerDay THEN 8
          ELSE IF ticksUntilDue <= 7 * TicksPerDay THEN 6
          ELSE IF ticksUntilDue <= 14 * TicksPerDay THEN 4
          ELSE IF ticksUntilDue <= 30 * TicksPerDay THEN 3
          ELSE 2

\* (due.getTime() - now.getTime()) / (1000*60*60*24), compared in ticks
getDeadlineScore(dueDate) ==
  IF dueDate = NULL THEN 2
  ELSE LET ticksUntilDue == dueDate[1] * TicksPerDay - now
       IN IF ticksUntilDue < 0 THEN 10
          ELSE IF ticksUntilDue <= 1 * TicksPerDay THEN 9
          ELSE IF ticksUntilDue <= 3 * TicksPerDay THEN 8
          ELSE IF ticksUntilDue <= 7 * TicksPerDay THEN 6
          ELSE IF ticksUntilDue <= 14 * TicksPerDay THEN 4
          ELSE IF ticksUntilDue <= 30 * TicksPerDay THEN 3
          ELSE 2

categoryImpact ==
  [exhibition |-> 5, education |-> 4, collection |-> 3,
   publication |-> 3, research |-> 2, admin |-> 2]

Min(a, b) == IF a < b THEN a ELSE b

\* mutant: the effort thresholds inclusive (>= for >)
getImpactScore_Inclusive(task) ==
  LET base == IF task.category \in DOMAIN categoryImpact
              THEN categoryImpact[task.category] ELSE 2
      effort == IF Falsy(task.estimated_hours) THEN 0
                ELSE IF task.estimated_hours[1] >= 8 * HoursScale THEN 3
                ELSE IF task.estimated_hours[1] >= 4 * HoursScale THEN 2
                ELSE 1
  IN Min(base + effort, 10)

\* mutant: the effort bonus without its presence test (if (task.estimated_hours))
getImpactScore_NoPresenceTest(task) ==
  LET base == IF task.category \in DOMAIN categoryImpact
              THEN categoryImpact[task.category] ELSE 2
      effort == IF OrZero(task.estimated_hours) > 8 * HoursScale THEN 3
                ELSE IF OrZero(task.estimated_hours) > 4 * HoursScale THEN 2
                ELSE 1
  IN Min(base + effort, 10)

getImpactScore(task) ==
  LET base == IF task.category \in DOMAIN categoryImpact
              THEN categoryImpact[task.category] ELSE 2
      effort == IF Falsy(task.estimated_hours) THEN 0
                ELSE IF task.estimated_hours[1] > 8 * HoursScale THEN 3
                ELSE IF task.estimated_hours[1] > 4 * HoursScale THEN 2
                ELSE 1
  IN Min(base + effort, 10)

\* mutant: the default dependency 1 instead of 2
getDependencyScore_DefaultOne(task) ==
  IF task.category = "exhibition" \/ task.category = "collection" THEN 5 ELSE 1

getDependencyScore(task) ==
  IF task.category = "exhibition" \/ task.category = "collection" THEN 5 ELSE 2

\* mutant: the thresholds inclusive (>= for >)
getComplexityScore_Inclusive(estimatedHours) ==
  IF Falsy(estimatedHours) THEN 2
  ELSE IF estimatedHours[1] >= 16 * HoursScale THEN 8
  ELSE IF estimatedHours[1] >= 8 * HoursScale THEN 6
  ELSE IF estimatedHours[1] >= 4 * HoursScale THEN 4
  ELSE IF estimatedHours[1] >= 2 * HoursScale THEN 3
  ELSE 2

getComplexityScore(estimatedHours) ==
  IF Falsy(estimatedHours) THEN 2
  ELSE IF estimatedHours[1] > 16 * HoursScale THEN 8
  ELSE IF estimatedHours[1] > 8 * HoursScale THEN 6
  ELSE IF estimatedHours[1] > 4 * HoursScale THEN 4
  ELSE IF estimatedHours[1] > 2 * HoursScale THEN 3
  ELSE 2

getUrgencyFactors(task) ==
  [deadline |-> getDeadlineScore(task.due_date),
   impact |-> getImpactScore(task),
   dependency |-> getDependencyScore(task),
   complexity |-> getComplexityScore(task.estimated_hours)]

\* mutant: the impact reason from > 7 instead of >= 7
generateRecommendation_ImpactExclusive(factors, score) ==
  LET r1 == IF factors.deadline >= 8 THEN <<"deadline_near">> ELSE <<>>
      r2 == IF factors.impact > 7 THEN <<"high_impact">> ELSE <<>>
      r3 == IF factors.dependency >= 5 THEN <<"blocking">> ELSE <<>>
      r4 == IF factors.complexity >= 6 THEN <<"high_complexity">> ELSE <<>>
      reasons == r1 \o r2 \o r3 \o r4
  IN IF DblGeTenths(score, 80) THEN [band |-> "urgent", body |-> reasons]
     ELSE IF DblGeTenths(score, 60) THEN [band |-> "important", body |-> reasons]
     ELSE IF DblGeTenths(score, 40)
       THEN [band |-> "normal",
             body |-> IF reasons = <<>> THEN <<"general_priority">> ELSE reasons]
     ELSE [band |-> "low", body |-> <<"no_hurry">>]

\* mutant: the blocking reason from > 5 instead of >= 5
generateRecommendation_DependencyExclusive(factors, score) ==
  LET r1 == IF factors.deadline >= 8 THEN <<"deadline_near">> ELSE <<>>
      r2 == IF factors.impact >= 7 THEN <<"high_impact">> ELSE <<>>
      r3 == IF factors.dependency > 5 THEN <<"blocking">> ELSE <<>>
      r4 == IF factors.complexity >= 6 THEN <<"high_complexity">> ELSE <<>>
      reasons == r1 \o r2 \o r3 \o r4
  IN IF DblGeTenths(score, 80) THEN [band |-> "urgent", body |-> reasons]
     ELSE IF DblGeTenths(score, 60) THEN [band |-> "important", body |-> reasons]
     ELSE IF DblGeTenths(score, 40)
       THEN [band |-> "normal",
             body |-> IF reasons = <<>> THEN <<"general_priority">> ELSE reasons]
     ELSE [band |-> "low", body |-> <<"no_hurry">>]

\* reasons.join(', ') is modelled by the sequence of the joined tags
generateRecommendation(factors, score) ==
  LET r1 == IF factors.deadline >= 8 THEN <<"deadline_near">> ELSE <<>>
      r2 == IF factors.impact >= 7 THEN <<"high_impact">> ELSE <<>>
      r3 == IF factors.dependency >= 5 THEN <<"blocking">> ELSE <<>>
      r4 == IF factors.complexity >= 6 THEN <<"high_complexity">> ELSE <<>>
      reasons == r1 \o r2 \o r3 \o r4
  IN IF DblGeTenths(score, 80) THEN [band |-> "urgent", body |-> reasons]
     ELSE IF DblGeTenths(score, 60) THEN [band |-> "important", body |-> reasons]
     ELSE IF DblGeTenths(score, 40)
       THEN [band |-> "normal",
             body |-> IF reasons = <<>> THEN <<"general_priority">> ELSE reasons]
     ELSE [band |-> "low", body |-> <<"no_hurry">>]

\* mutant: the deadline and impact weights swapped
WeightedSum_Swapped(factors) ==
  DblAdd(DblAdd(DblAdd(DblMul(factors.deadline, weights.impact),
                       DblMul(factors.impact, weights.deadline)),
                DblMul(factors.dependency, weights.dependency)),
         DblMul(factors.complexity, weights.complexity))

WeightedSum(factors) ==
  DblAdd(DblAdd(DblAdd(DblMul(factors.deadline, weights.deadline),
                       DblMul(factors.impact, weights.impact)),
                DblMul(factors.dependency, weights.dependency)),
         DblMul(factors.complexity, weights.complexity))

calculateUrgencyScore(task) ==
  LET factors == getUrgencyFactors(task)
      urgencyScore == WeightedSum(factors)
  IN [task |-> task,
      urgencyScore |-> urgencyScore,
      factors |-> factors,
      recommendation |-> generateRecommendation(factors, urgencyScore)]

\* ------------------------------------------------------- schedule planner
\* mutant: only cancelled tasks filtered out
Eligible_NotCancelled(t) == t.status # "cancelled"

Eligible(t) == t.status = "pending" \/ t.status = "in_progress"

\* mutant: an unstable sort, a later element placed before its equals
RECURSIVE InsertByUrgency_BeforeEquals(_, _)
InsertByUrgency_BeforeEquals(sorted, x) ==
  IF sorted = <<>> THEN <<x>>
  ELSE IF ~DblLess(x.urgencyScore, Head(sorted).urgencyScore)
       THEN <<x>> \o sorted
       ELSE <<Head(sorted)>> \o InsertByUrgency_BeforeEquals(Tail(sorted), x)

\* Array.prototype.sort with (a, b) => b.urgencyScore - a.urgencyScore:
\* a stable sort, descending by urgencyScore
RECURSIVE InsertByUrgency(_, _)
InsertByUrgency(sorted, x) ==
  IF sorted = <<>> THEN <<x>>
  ELSE IF DblLess(Head(sorted).urgencyScore, x.urgencyScore)
       THEN <<x>> \o sorted
       ELSE <<Head(sorted)>> \o InsertByUrgency(Tail(sorted), x)

\* mutant: the sort left out
SortByUrgency_Unsorted(s) == s

RECURSIVE SortByUrgency(_)
SortByUrgency(s) ==
  IF s = <<>> THEN <<>>
  ELSE InsertByUrgency(SortByUrgency(SubSeq(s, 1, Len(s) - 1)), s[Len(s)])

\* mutant: the cut one too long
Slice_OneMore(s, n) == SubSeq(s, 1, Min(n + 1, Len(s)))

\* Array.prototype.slice(0, n)
Slice(s, n) == SubSeq(s, 1, Min(n, Len(s)))

calculateTopPriorityTasks(ts) ==
  LET pendingTasks == SelectSeq(ts, Eligible)
      scoredTasks == [i \in 1..Len(pendingTasks) |-> calculateUrgencyScore(pendingTasks[i])]
  IN Slice(SortByUrgency(scoredTasks), TopN)

\* totalHours of a slot: reduce((sum, t) => sum + (t.estimated_hours || 0), 0)
RECURSIVE SumHours(_)
SumHours(ts) ==
  IF ts = <<>> THEN 0 ELSE SumHours(SubSeq(ts, 1, Len(ts) - 1)) + OrZero(ts[Len(ts)].estimated_hours)

\* mutant: the loop guard off by one (slot.tasks.length > 2)
RECURSIVE TrimSlot_KeepTwo(_, _)
TrimSlot_KeepTwo(ts, totalHours) ==
  IF totalHours > maxHoursPerSlot * HoursScale /\ Len(ts) > 2
  THEN TrimSlot_KeepTwo(SubSeq(ts, 1, Len(ts) - 1),
                        totalHours - OrZero(ts[Len(ts)].estimated_hours))
  ELSE ts

\* the while loop of balanceWorkload on one slot's task list
RECURSIVE TrimSlot(_, _)
TrimSlot(ts, totalHours) ==
  IF totalHours > maxHoursPerSlot * HoursScale /\ Len(ts) > 1
  THEN TrimSlot(SubSeq(ts, 1, Len(ts) - 1),
                totalHours - OrZero(ts[Len(ts)].estimated_hours))
  ELSE ts

balanceWorkload(slot) ==
  [slot EXCEPT !.tasks = TrimSlot(slot.tasks, SumHours(slot.tasks))]

isCreative(task) == task.category = "exhibition" \/ task.category = "research"

isComplex(task) == OrZero(task.estimated_hours) > 2 * HoursScale

\* mutant: the morning test with || for &&
SlotOf_EitherOne(task) ==
  IF isCreative(task) \/ isComplex(task) THEN "morning"
  ELSE IF task.category = "education" \/ task.category = "publication" THEN "afternoon"
  ELSE "evening"

SlotOf(task) ==
  IF isCreative(task) /\ isComplex(task) THEN "morning"
  ELSE IF task.category = "education" \/ task.category = "publication" THEN "afternoon"
  ELSE "evening"

\* mutant: the evening branch without its else (every non-morning task)
distributeTasks_FallThrough(ts) ==
  [morning |-> [time |-> "09:00-12:00", energy |-> "high",
                tasks |-> SelectSeq(ts, LAMBDA t : SlotOf(t) = "morning")],
   afternoon |-> [time |-> "13:00-17:00", energy |-> "medium",
                  tasks |-> SelectSeq(ts, LAMBDA t : SlotOf(t) = "afternoon")],
   evening |-> [time |-> "17:00-18:00", energy |-> "low",
                tasks |-> SelectSeq(ts, LAMBDA t : SlotOf(t) # "morning")]]

\* the forEach of categorizeTasksByEnergy: the three slots before balancing
distributeTasks(ts) ==
  [morning |-> [time |-> "09:00-12:00", energy |-> "high",
                tasks |-> SelectSeq(ts, LAMBDA t : SlotOf(t) = "morning")],
   afternoon |-> [time |-> "13:00-17:00", energy |-> "medium",
                  tasks |-> SelectSeq(ts, LAMBDA t : SlotOf(t) = "afternoon")],
   evening |-> [time |-> "17:00-18:00", energy |-> "low",
                tasks |-> SelectSeq(ts, LAMBDA t : SlotOf(t) = "evening")]]

categorizeTasksByEnergy(ts) ==
  LET d == distributeTasks(ts)
  IN [morning |-> balanceWorkload(d.morning),
      afternoon |-> balanceWorkload(d.afternoon),
      evening |-> balanceWorkload(d.evening)]

calculateTotalHours(sch) ==
  SumHours(sch.morning.tasks \o sch.afternoon.tasks \o sch.evening.tasks)

\* mutant: the evening advisory from 2 tasks on (>= 2 for > 2)
generateScheduleRecommendation_EveningInclusive(sch, totalHours) ==
  LET r1 == IF totalHours > 8 * HoursScale THEN <<"overload">>
            ELSE IF totalHours < 4 * HoursScale THEN <<"light_day">>
            ELSE <<>>
      r2 == IF Len(sch.morning.tasks) = 0 THEN <<"use_morning">> ELSE <<>>
      r3 == IF Len(sch.evening.tasks) >= 2 THEN <<"trim_evening">> ELSE <<>>
      recommendations == r1 \o r2 \o r3
  IN IF Len(recommendations) > 0 THEN recommendations ELSE <<"well_balanced">>

\* recommendations.join('\n') is modelled by the sequence of the advisories
generateScheduleRecommendation(sch, totalHours) ==
  LET r1 == IF totalHours > 8 * HoursScale THEN <<"overload">>
            ELSE IF totalHours < 4 * HoursScale THEN <<"light_day">>
            ELSE <<>>
      r2 == IF Len(sch.morning.tasks) = 0 THEN <<"use_morning">> ELSE <<>>
      r3 == IF Len(sch.evening.tasks) > 2 THEN <<"trim_evening">> ELSE <<>>
      recommendations == r1 \o r2 \o r3
  IN IF Len(recommendations) > 0 THEN recommendations ELSE <<"well_balanced">>

\* the local topTasks of generateDailySchedule
scheduleCandidates(ts) ==
  LET priorityTasks == calculateTopPriorityTasks(ts)
      sliced == Slice(priorityTasks, ScheduleCandidates)
  IN [i \in 1..Len(sliced) |-> sliced[i].task]

\* mutant: the total taken before balancing
generateDailySchedule_TotalBeforeBalance(ts) ==
  LET sch == categorizeTasksByEnergy(scheduleCandidates(ts))
      totalHours == calculateTotalHours(distributeTasks(scheduleCandidates(ts)))
  IN [date |-> now \div TicksPerDay,
      morning |-> sch.morning,
      afternoon |-> sch.afternoon,
      evening |-> sch.evening,
      totalEstimatedHours |-> totalHours,
      aiRecommendation |-> generateScheduleRecommendation(sch, totalHours)]

generateDailySchedule(ts) ==
  LET sch == categorizeTasksByEnergy(scheduleCandidates(ts))
      totalHours == calculateTotalHours(sch)
  IN [date |-> now \div TicksPerDay,
      morning |-> sch.morning,
      afternoon |-> sch.afternoon,
      evening |-> sch.evening,
      totalEstimatedHours |-> totalHours,
      aiRecommendation |-> generateScheduleRecommendation(sch, totalHours)]

\* now.getHours(), isCreative and isComplex as in categorizeTasksByEnergy
suggestTaskTime(task, hour) ==
  IF hour >= 9 /\ hour < 12 /\ (isCreative(task) \/ isComplex(task))
    THEN [recommendedTime |-> "now", reason |-> "morning_high_energy"]
  ELSE IF hour >= 13 /\ hour < 17
    THEN [recommendedTime |-> "now", reason |-> "afternoon_medium_difficulty"]
  ELSE IF hour >= 17 /\ hour < 18 /\ ~isCreative(task) /\ ~isComplex(task)
    THEN [recommendedTime |-> "now", reason |-> "evening_simple_work"]
  ELSE IF isCreative(task) \/ isComplex(task)
    THEN [recommendedTime |-> "tomorrow_morning", reason |-> "creative_or_complex_in_morning"]
  ELSE [recommendedTime |-> "afternoon", reason |-> "general_work_in_afternoon"]

\* ------------------------------------------------------------------ inputs
\* the clock during the calendar day 0 ("today"), tick 0 being midnight
Instants == 0..(TicksPerDay - 1)

\* due dates around every threshold of getDeadlineScore
DueDates == {NULL} \cup {Some(d) : d \in {-1, 0, 1, 2, 3, 4, 7, 8, 14, 15, 30, 31}}

\* estimated hours around every threshold: whole hours, the smallest
\* fraction of an hour, and the smallest amount above 2 hours
EstimatedHours ==
  {NULL, Some(1), Some(2 * HoursScale + 1)}
    \cup {Some(h * HoursScale) : h \in {1, 2, 3, 4, 5, 8, 9, 16, 17}}

Profile(c, s, d, h) == [category |-> c, status |-> s, due_date |-> d, estimated_hours |-> h]

AllProfiles ==
  {Profile(c, s, d, h) : c \in TaskCategory, s \in TaskStatus, d \in DueDates, h \in EstimatedHours}

\* a mix that reaches every slot, overloads every slot and has ineligible
\* tasks outranking eligible ones
PlanProfiles ==
  {Profile("exhibition", "pending", Some(-1), Some(2 * HoursScale + 1)),
   Profile("education", "pending", Some(1), Some(2 * HoursScale)),
   Profile("publication", "in_progress", NULL, NULL),
   Profile("admin", "pending", NULL, Some(9 * HoursScale)),
   Profile("exhibition", "in_progress", Some(3), Some(HoursScale)),
   Profile("collection", "completed", Some(-1), Some(2 * HoursScale))}

\* more eligible tasks than the schedule takes: a run of k tasks without a
\* due date followed by a run of otherwise identical overdue ones
BulkProfiles(n, k) ==
  [i \in 1..n |-> IF i <= k THEN Profile("exhibition", "pending", NULL, Some(HoursScale))
                  ELSE Profile("exhibition", "in_progress", Some(-1), Some(HoursScale))]

\* rows get their ids from AUTOINCREMENT: the i-th row has id i
TaskList(ps) ==
  [i \in 1..Len(ps) |->
     [id |-> i, category |-> ps[i].category, status |-> ps[i].status,
      due_date |-> ps[i].due_date, estimated_hours |-> ps[i].estimated_hours]]

\* the clients that may connect to GET /api/sync/stream
Clients == 1..MaxClients

\* Date.prototype.getHours() returns 0..23
HoursOfDay == 0..23

\* the task lists drawn as input: one task of any profile, a mixed list,
\* or a bulk list
IsInputList(ts) ==
  \/ \E p \in AllProfiles : ts = TaskList(<<p>>)
  \/ \E n \in 0..MaxTasks : \E ps \in [1..n -> PlanProfiles] : ts = TaskList(ps)
  \/ \E n \in (ScheduleCandidates + 1)..MaxBulk : \E k \in 0..n :
       ts = TaskList(BulkProfiles(n, k))

\* ----------------------------------------------------------- state machine
\* new DataService(env): no observer, no stream, the initial empty state
DataInit ==
  /\ observers = <<>>
  /\ nextObserver = 1
  /\ sseController = NULL
  /\ clients = {}
  /\ received = [c \in Clients |-> <<>>]
  /\ stateValue = NULL
  /\ kv = NULL
  /\ phase = "idle"
  /\ idx = 0
  /\ invoked = <<>>
  /\ snapshot = <<>>
  /\ setStates = 0
  /\ threw = {}
  /\ kvFailed = FALSE

\* new DashboardController(): the constructor has called init()
DashInit ==
  /\ loading = 1
  /\ timers = 0
  /\ eventSources = 0

\* no slot handed to balanceWorkload yet
BalanceInit ==
  /\ slotHours = <<>>
  /\ keptHours = NULL

\* no call of the Priority Service yet
PriorityInit ==
  /\ op = "idle"
  /\ scored = NULL
  /\ topPriority = <<>>
  /\ topTasks = <<>>
  /\ schedule = NULL
  /\ suggestion = NULL

Init ==
  /\ IsInputList(tasks)
  /\ now \in Instants
  /\ PriorityInit
  /\ DataInit
  /\ DashInit
  /\ BalanceInit

\* a caller scores the i-th task
CalculateUrgencyScore(i) ==
  /\ op = "idle"
  /\ op' = "calculateUrgencyScore"
  /\ scored' = calculateUrgencyScore(tasks[i])
  /\ topPriority' = <<>>
  /\ topTasks' = <<>>
  /\ schedule' = NULL
  /\ UNCHANGED <<tasks, now, suggestion, dataVars, dashVars, balanceVars>>

\* mutant: the caller's list sorted in place (tasks.sort(...) on the input)
CalculateTopPriorityTasks_SortsInput ==
  /\ op = "idle"
  /\ op' = "calculateTopPriorityTasks"
  /\ topPriority' = calculateTopPriorityTasks(tasks)
  /\ tasks' = [i \in 1..Len(tasks) |->
                SortByUrgency([j \in 1..Len(tasks) |-> calculateUrgencyScore(tasks[j])])[i].task]
  /\ scored' = NULL
  /\ topTasks' = <<>>
  /\ schedule' = NULL
  /\ UNCHANGED <<now, suggestion, dataVars, dashVars, balanceVars>>

\* GET /api/priority/top-tasks
CalculateTopPriorityTasks ==
  /\ op = "idle"
  /\ op' = "calculateTopPriorityTasks"
  /\ topPriority' = calculateTopPriorityTasks(tasks)
  /\ scored' = NULL
  /\ topTasks' = <<>>
  /\ schedule' = NULL
  /\ UNCHANGED <<tasks, now, suggestion, dataVars, dashVars, balanceVars>>

\* GET /api/priority/daily-schedule
GenerateDailySchedule ==
  /\ op = "idle"
  /\ op' = "generateDailySchedule"
  /\ topTasks' = scheduleCandidates(tasks)
  /\ schedule' = generateDailySchedule(tasks)
  /\ scored' = NULL
  /\ topPriority' = <<>>
  /\ UNCHANGED <<tasks, now, suggestion, dataVars, dashVars, balanceVars>>

Next ==
  \/ \E i \in 1..Len(tasks) : CalculateUrgencyScore(i)
  \/ CalculateTopPriorityTasks
  \/ GenerateDailySchedule

Spec == Init /\ [][Next]_vars

\* the advisor alone: one task of any profile, asked about at any hour
InitSuggest ==
  /\ Init
  /\ Len(tasks) = 1

\* a caller asks when to do the i-th task; getHours() is the local hour of
\* the wall clock, read at the call
SuggestTaskTime(i, h) ==
  /\ op = "idle"
  /\ op' = "suggestTaskTime"
  /\ suggestion' = [task |-> tasks[i], hour |-> h, result |-> suggestTaskTime(tasks[i], h)]
  /\ UNCHANGED <<tasks, now, scored, topPriority, topTasks, schedule, dataVars, dashVars, balanceVars>>

NextSuggest == \E i \in 1..Len(tasks) : \E h \in HoursOfDay : SuggestTaskTime(i, h)

SpecSuggest == InitSuggest /\ [][NextSuggest]_vars

\* ------------------------------------------------------------ Data Service
\* indexOf(observer) and splice(index, 1): observer objects are distinct
RemoveObserver(obs, o) == SelectSeq(obs, LAMBDA x : x # o)

ConnectedEvent == [type |-> "connected", value |-> 0]

StateUpdateEvent(v) == [type |-> "state_update", value |-> v]

\* what one observer callback does when invoked: it may call the unsubscribe
\* function of an observer (its own or another's) and it may throw
CallbackEffects ==
  {[unsub |-> u, throws |-> t] : u \in {NULL} \cup {Some(o) : o \in 1..MaxObservers},
                                t \in BOOLEAN}

InitData ==
  /\ tasks = <<>>
  /\ now = 0
  /\ PriorityInit
  /\ DataInit
  /\ DashInit
  /\ BalanceInit

\* a route handler starts: createDataService(c.env) makes a new instance
CreateDataService ==
  /\ phase = "idle"
  /\ observers' = <<>>
  /\ sseController' = NULL
  /\ stateValue' = NULL
  /\ invoked' = <<>>
  /\ snapshot' = <<>>
  /\ threw' = {}
  /\ kvFailed' = FALSE
  /\ idx' = 0
  /\ UNCHANGED <<nextObserver, clients, received, kv, phase, setStates>>
  /\ UNCHANGED <<priorityVars, dashVars, balanceVars>>

\* GET /api/sync/stream: the handler makes its own instance, gives it the
\* controller of the new stream and enqueues the "connected" message; it
\* calls nothing else on that instance
ConnectStream(c) ==
  /\ c \notin clients
  /\ received[c] = <<>>
  /\ clients' = clients \cup {c}
  /\ received' = [received EXCEPT ![c] = <<ConnectedEvent>>]
  /\ UNCHANGED <<observers, nextObserver, sseController, stateValue, kv, phase, idx,
                 invoked, snapshot, setStates, threw, kvFailed>>
  /\ UNCHANGED <<priorityVars, dashVars, balanceVars>>

\* the client closes its stream
DisconnectStream(c) ==
  /\ c \in clients
  /\ clients' = clients \ {c}
  /\ UNCHANGED <<observers, nextObserver, sseController, received, stateValue, kv, phase,
                 idx, invoked, snapshot, setStates, threw, kvFailed>>
  /\ UNCHANGED <<priorityVars, dashVars, balanceVars>>

\* initSSEStream(controller) on the instance being called
InitSSEStream(c) ==
  /\ phase \in {"idle", "persist"}
  /\ c \in clients
  /\ sseController # Some(c)
  /\ sseController' = Some(c)
  /\ UNCHANGED <<observers, nextObserver, clients, received, stateValue, kv, phase, idx,
                 invoked, snapshot, setStates, threw, kvFailed>>
  /\ UNCHANGED <<priorityVars, dashVars, balanceVars>>

\* subscribe(callback), between calls or while a setState awaits KV
Subscribe ==
  /\ phase \in {"idle", "persist"}
  /\ nextObserver <= MaxObservers
  /\ observers' = Append(observers, nextObserver)
  /\ nextObserver' = nextObserver + 1
  /\ UNCHANGED <<sseController, clients, received, stateValue, kv, phase, idx, invoked,
                 snapshot, setStates, threw, kvFailed>>
  /\ UNCHANGED <<priorityVars, dashVars, balanceVars>>

\* the unsubscribe function of observer o, called from outside a callback
Unsubscribe(o) ==
  /\ phase \in {"idle", "persist"}
  /\ \E i \in DOMAIN observers : observers[i] = o
  /\ observers' = RemoveObserver(observers, o)
  /\ UNCHANGED <<nextObserver, sseController, clients, received, stateValue, kv, phase,
                 idx, invoked, snapshot, setStates, threw, kvFailed>>
  /\ UNCHANGED <<priorityVars, dashVars, balanceVars>>

\* setState(key, value) up to the call of notifyObservers
SetState ==
  /\ phase = "idle"
  /\ setStates < MaxSetStates
  /\ setStates' = setStates + 1
  /\ stateValue' = Some(setStates + 1)
  /\ phase' = "notify"
  /\ idx' = 1
  /\ invoked' = <<>>
  /\ snapshot' = observers
  /\ threw' = {}
  /\ kvFailed' = FALSE
  /\ UNCHANGED <<observers, nextObserver, sseController, clients, received, kv>>
  /\ UNCHANGED <<priorityVars, dashVars, balanceVars>>

\* one round of this.observers.forEach: the element at idx, if the array
\* still has one, is invoked inside try / catch
NotifyObserver(effect) ==
  /\ phase = "notify"
  /\ idx <= Len(observers)
  /\ invoked' = Append(invoked, observers[idx])
  /\ threw' = IF effect.throws THEN threw \cup {observers[idx]} ELSE threw
  /\ observers' = IF effect.unsub = NULL THEN observers
                  ELSE RemoveObserver(observers, effect.unsub[1])
  /\ idx' = idx + 1
  /\ UNCHANGED <<nextObserver, sseController, clients, received, stateValue, kv, phase,
                 snapshot, setStates, kvFailed>>
  /\ UNCHANGED <<priorityVars, dashVars, balanceVars>>

\* forEach has run past the end of the array: notifyObservers returns
NotifyObserversReturns ==
  /\ phase = "notify"
  /\ idx > Len(observers)
  /\ phase' = "persist"
  /\ UNCHANGED <<observers, nextObserver, sseController, clients, received, stateValue, kv,
                 idx, invoked, snapshot, setStates, threw, kvFailed>>
  /\ UNCHANGED <<priorityVars, dashVars, balanceVars>>

\* await persistToKV(key, value): KV.put succeeds, or fails and is caught
PersistToKV(ok) ==
  /\ phase = "persist"
  /\ kv' = IF ok THEN stateValue ELSE kv
  /\ kvFailed' = ~ok
  /\ phase' = "broadcast"
  /\ UNCHANGED <<observers, nextObserver, sseController, clients, received, stateValue,
                 idx, invoked, snapshot, setStates, threw>>
  /\ UNCHANGED <<priorityVars, dashVars, balanceVars>>

\* broadcast(event): nothing without a controller; enqueue on a closed
\* stream throws and is caught; then setState resolves
Broadcast ==
  /\ phase = "broadcast"
  /\ received' =
       IF sseController # NULL /\ sseController[1] \in clients
       THEN [received EXCEPT ![sseController[1]] = Append(@, StateUpdateEvent(stateValue[1]))]
       ELSE received
  /\ phase' = "idle"
  /\ UNCHANGED <<observers, nextObserver, sseController, clients, stateValue, kv, idx,
                 invoked, snapshot, setStates, threw, kvFailed>>
  /\ UNCHANGED <<priorityVars, dashVars, balanceVars>>

NextData ==
  \/ CreateDataService
  \/ \E c \in Clients : ConnectStream(c)
  \/ \E c \in Clients : DisconnectStream(c)
  \/ \E c \in Clients : InitSSEStream(c)
  \/ Subscribe
  \/ \E o \in 1..MaxObservers : Unsubscribe(o)
  \/ SetState
  \/ \E effect \in CallbackEffects : NotifyObserver(effect)
  \/ NotifyObserversReturns
  \/ \E ok \in BOOLEAN : PersistToKV(ok)
  \/ Broadcast

SpecData == InitData /\ [][NextData]_vars

\* ------------------------------------------- the composite score alone
\* every sub-score is a whole number from 0 to 10
FactorValues == 0..10

FactorTuples ==
  [deadline : FactorValues, impact : FactorValues,
   dependency : FactorValues, complexity : FactorValues]

InitFactors ==
  /\ tasks = <<>>
  /\ now = 0
  /\ PriorityInit
  /\ DataInit
  /\ DashInit
  /\ BalanceInit

\* the weighted sum and the message of calculateUrgencyScore for a given
\* tuple of sub-scores
ScoreFactors(factors) ==
  /\ op = "idle"
  /\ op' = "calculateUrgencyScore"
  /\ scored' = [task |-> NULL,
                urgencyScore |-> WeightedSum(factors),
                factors |-> factors,
                recommendation |-> generateRecommendation(factors, WeightedSum(factors))]
  /\ UNCHANGED <<tasks, now, topPriority, topTasks, schedule, suggestion>>
  /\ UNCHANGED <<dataVars, dashVars, balanceVars>>

NextFactors == \E factors \in FactorTuples : ScoreFactors(factors)

SpecFactors == InitFactors /\ [][NextFactors]_vars

\* ------------------------------------- balancing with decimal hours
\* estimated_hours is a REAL column: hours in tenths, around the cap and
\* around the sums that are not exact in double arithmetic
HourTenths == {1, 2, 3, 10, 14, 20, 23, 27, 30, 35}

SlotHours == {NULL} \cup {Some(k) : k \in HourTenths}

\* the task lists of a slot, each task given by its estimated_hours
SlotInputs == UNION {[1..n -> SlotHours] : n \in 0..MaxSlotTasks}

\* totalHours of a slot in double arithmetic:
\* reduce((sum, t) => sum + (t.estimated_hours || 0), 0)
RECURSIVE SumHoursDbl(_)
SumHoursDbl(hs) ==
  IF hs = <<>> THEN DblTenths(0)
  ELSE DblAdd(SumHoursDbl(SubSeq(hs, 1, Len(hs) - 1)), DblTenths(OrZero(hs[Len(hs)])))

\* the while loop of balanceWorkload in double arithmetic: the running
\* total is reduced by the hours of each popped task
RECURSIVE TrimSlotDbl(_, _)
TrimSlotDbl(hs, totalHours) ==
  IF DblLess(DblTenths(10 * maxHoursPerSlot), totalHours) /\ Len(hs) > 1
  THEN TrimSlotDbl(SubSeq(hs, 1, Len(hs) - 1),
                   DblSub(totalHours, DblTenths(OrZero(hs[Len(hs)]))))
  ELSE hs

InitBalance ==
  /\ tasks = <<>>
  /\ now = 0
  /\ PriorityInit
  /\ DataInit
  /\ DashInit
  /\ slotHours \in SlotInputs
  /\ keptHours = NULL

\* balanceWorkload on one slot
BalanceWorkload ==
  /\ keptHours = NULL
  /\ keptHours' = Some(TrimSlotDbl(slotHours, SumHoursDbl(slotHours)))
  /\ UNCHANGED slotHours
  /\ UNCHANGED <<priorityVars, dataVars, dashVars>>

NextBalance == BalanceWorkload

SpecBalance == InitBalance /\ [][NextBalance]_vars

\* --------------------------------------------------------- dashboard page
InitDashboard ==
  /\ tasks = <<>>
  /\ now = 0
  /\ PriorityInit
  /\ DataInit
  /\ DashInit
  /\ BalanceInit

\* init() after its await: the four loads have settled (each catches its
\* own errors), setupSSE() opens an EventSource and setInterval starts a
\* timer; nothing closes the one or clears the other
InitLoaded ==
  /\ loading > 0
  /\ loading' = loading - 1
  /\ eventSources' = eventSources + 1
  /\ timers' = timers + 1
  /\ UNCHANGED <<priorityVars, dataVars, balanceVars>>

\* one of the timers fires after 5 minutes: refreshAll() awaits init()
RefreshAll ==
  /\ timers > 0
  /\ timers + loading < MaxTimers
  /\ loading' = loading + 1
  /\ UNCHANGED <<timers, eventSources>>
  /\ UNCHANGED <<priorityVars, dataVars, balanceVars>>

NextDashboard == InitLoaded \/ RefreshAll

SpecDashboard == InitDashboard /\ [][NextDashboard]_vars

\* ------------------------------------------------- vocabulary of the claims
IsEligibleStatus(st) == st \in {"pending", "in_progress"}

EligibleIndices == {i \in DOMAIN tasks : IsEligibleStatus(tasks[i].status)}

Range(s) == {s[i] : i \in DOMAIN s}

ScoreOf(task) == calculateUrgencyScore(task).urgencyScore

\* the three slots of the returned schedule, in order
ScheduledTasks == schedule.morning.tasks \o schedule.afternoon.tasks \o schedule.evening.tasks

SlotNames == {"morning", "afternoon", "evening"}

\* C1: given more than 10 eligible tasks, generateDailySchedule distributes
\* the 10 highest-urgency tasks into the slots and leaves out only the rest.
C1_TopTenAreCandidates ==
  (op = "generateDailySchedule" /\ Cardinality(EligibleIndices) > 10) =>
    /\ Len(topTasks) = 10
    /\ \A i \in EligibleIndices :
         tasks[i] \notin Range(topTasks) =>
           \A c \in Range(topTasks) : ~DblLess(ScoreOf(c), ScoreOf(tasks[i]))

\* C2: calculateTopPriorityTasks returns at most 3 results, and fewer than 3
\* iff fewer than 3 input tasks are eligible, then one result per eligible task.
C2_AtMostThree ==
  op = "calculateTopPriorityTasks" =>
    /\ Len(topPriority) <= 3
    /\ (Len(topPriority) < 3 <=> Cardinality(EligibleIndices) < 3)
    /\ Cardinality(EligibleIndices) < 3 =>
         /\ Len(topPriority) = Cardinality(EligibleIndices)
         /\ \A i \in EligibleIndices :
              Cardinality({j \in DOMAIN topPriority : topPriority[j].task = tasks[i]}) = 1

\* more than 3 eligible tasks, cut to 3
C2_Witness ==
  /\ op = "calculateTopPriorityTasks"
  /\ Cardinality(EligibleIndices) > 3
  /\ Len(topPriority) = 3

\* C3: the result of calculateTopPriorityTasks is sorted by urgencyScore in
\* non-increasing order and no eligible task left out of it scores strictly
\* higher than a task in it.
C3_SortedAndTop ==
  op = "calculateTopPriorityTasks" =>
    /\ \A j, k \in DOMAIN topPriority :
         j < k => ~DblLess(topPriority[j].urgencyScore, topPriority[k].urgencyScore)
    /\ \A i \in EligibleIndices :
         (\A j \in DOMAIN topPriority : topPriority[j].task # tasks[i]) =>
           \A j \in DOMAIN topPriority :
             ~DblLess(topPriority[j].urgencyScore, ScoreOf(tasks[i]))

\* the sort reordered the input and the cut left an eligible task out
C3_Witness ==
  /\ op = "calculateTopPriorityTasks"
  /\ Cardinality(EligibleIndices) > Len(topPriority)
  /\ \E j, k \in DOMAIN topPriority :
       /\ j < k
       /\ topPriority[j].task.id > topPriority[k].task.id
       /\ DblLess(topPriority[k].urgencyScore, topPriority[j].urgencyScore)

\* the claimed expression 0.40*deadline + 0.30*impact + 0.20*dependency +
\* 0.10*complexity, evaluated left to right in double arithmetic
ClaimedScore(f) ==
  DblAdd(DblAdd(DblAdd(DblMul(f.deadline, DblTenths(4)), DblMul(f.impact, DblTenths(3))),
                DblMul(f.dependency, DblTenths(2))),
         DblMul(f.complexity, DblTenths(1)))

\* C4: calculateUrgencyScore returns urgencyScore = 0.40*deadline +
\* 0.30*impact + 0.20*dependency + 0.10*complexity, the operands being the
\* sub-scores returned in the factors field for the same task.
C4_WeightedSum ==
  op = "calculateUrgencyScore" =>
    /\ scored.urgencyScore = ClaimedScore(scored.factors)
    /\ scored.urgencyScore.t = 4 * scored.factors.deadline + 3 * scored.factors.impact
                                 + 2 * scored.factors.dependency + scored.factors.complexity
    /\ scored.task \in Range(tasks)
    /\ scored.factors = getUrgencyFactors(scored.task)

\* a task whose four sub-scores all differ
C4_Witness ==
  /\ op = "calculateUrgencyScore"
  /\ Cardinality({scored.factors.deadline, scored.factors.impact,
                  scored.factors.dependency, scored.factors.complexity}) = 4
  /\ scored.urgencyScore.e # 0

\* the task of the worked example: exhibition, due today, 2 hours
IsExampleTask(task) ==
  /\ task.category = "exhibition"
  /\ task.status = "pending"
  /\ task.due_date = Some(now \div TicksPerDay)
  /\ task.estimated_hours = Some(2 * HoursScale)

\* C5 as stated: the example task gets deadline=9, impact=6, dependency=5,
\* complexity=3 and urgencyScore 6.7.
C5_ExampleAsStated ==
  (op = "calculateUrgencyScore" /\ IsExampleTask(scored.task)) =>
    /\ scored.factors = [deadline |-> 9, impact |-> 6, dependency |-> 5, complexity |-> 3]
    /\ scored.urgencyScore = DblTenths(67)

\* C5 amended: the example task gets impact=6, dependency=5, complexity=2;
\* deadline=10 and urgencyScore 7.0 once the clock has passed midnight of the
\* due date, deadline=9 and urgencyScore 6.6 (the double 0.4*9 + 0.3*6 +
\* 0.2*5 + 0.1*2) at that midnight itself.
C5_ExampleAmended ==
  (op = "calculateUrgencyScore" /\ IsExampleTask(scored.task)) =>
    /\ scored.factors.impact = 6
    /\ scored.factors.dependency = 5
    /\ scored.factors.complexity = 2
    /\ now % TicksPerDay > 0 =>
         /\ scored.factors.deadline = 10
         /\ scored.urgencyScore = [t |-> 70, e |-> 0]
    /\ now % TicksPerDay = 0 =>
         /\ scored.factors.deadline = 9
         /\ scored.urgencyScore.t = 66
         /\ scored.urgencyScore =
              ClaimedScore([deadline |-> 9, impact |-> 6, dependency |-> 5, complexity |-> 2])

C5_Witness ==
  /\ op = "calculateUrgencyScore"
  /\ IsExampleTask(scored.task)
  /\ now % TicksPerDay > 0
  /\ scored.factors.deadline = 10

\* estimated_hours of a task, a missing value counted as 0
HoursOrZero(task) == IF task.estimated_hours = NULL THEN 0 ELSE task.estimated_hours[1]

RECURSIVE TotalOf(_)
TotalOf(ts) == IF ts = <<>> THEN 0 ELSE HoursOrZero(Head(ts)) + TotalOf(Tail(ts))

\* C6: after balancing, each slot's summed estimated_hours is at most 3,
\* unless the slot holds exactly one task whose own hours exceed 3.
C6_SlotCap ==
  op = "generateDailySchedule" =>
    \A name \in SlotNames :
      \/ TotalOf(schedule[name].tasks) <= 3 * HoursScale
      \/ /\ Len(schedule[name].tasks) = 1
         /\ HoursOrZero(schedule[name].tasks[1]) > 3 * HoursScale

\* balancing removed a task from a slot that was over the cap
C6_Witness ==
  /\ op = "generateDailySchedule"
  /\ \E name \in SlotNames :
       /\ TotalOf(distributeTasks(topTasks)[name].tasks) > 3 * HoursScale
       /\ Len(schedule[name].tasks) < Len(distributeTasks(topTasks)[name].tasks)
       /\ TotalOf(schedule[name].tasks) <= 3 * HoursScale

\* C7: in the returned schedule each task appears in at most one slot and at
\* most once within a slot, and every scheduled task is one of the
\* prioritized candidate tasks of the input.
C7_SlotsDisjoint ==
  op = "generateDailySchedule" =>
    /\ \A i, j \in DOMAIN ScheduledTasks :
         i # j => ScheduledTasks[i].id # ScheduledTasks[j].id
    /\ \A i \in DOMAIN ScheduledTasks :
         /\ ScheduledTasks[i] \in Range(topTasks)
         /\ ScheduledTasks[i] \in Range(tasks)

\* all three slots received a task
C7_Witness ==
  /\ op = "generateDailySchedule"
  /\ \A name \in SlotNames : Len(schedule[name].tasks) > 0

\* C8: no task with status completed, paused or cancelled appears in the
\* result of calculateTopPriorityTasks or in a slot of generateDailySchedule.
C8_OnlyEligible ==
  /\ op = "calculateTopPriorityTasks" =>
       \A j \in DOMAIN topPriority : IsEligibleStatus(topPriority[j].task.status)
  /\ op = "generateDailySchedule" =>
       \A i \in DOMAIN ScheduledTasks : IsEligibleStatus(ScheduledTasks[i].status)

\* an ineligible task that outscores a scheduled one was kept out
C8_Witness ==
  /\ op = "generateDailySchedule"
  /\ Len(ScheduledTasks) > 0
  /\ \E i \in DOMAIN tasks :
       /\ ~IsEligibleStatus(tasks[i].status)
       /\ \E j \in DOMAIN ScheduledTasks : DblLess(ScoreOf(ScheduledTasks[j]), ScoreOf(tasks[i]))

\* the claimed step function of days remaining = (due_date - now) / 1 day,
\* with days remaining <= k  iff  ticks remaining <= k * TicksPerDay
ClaimedDeadline(dueDate) ==
  IF dueDate = NULL THEN 2
  ELSE LET remaining == dueDate[1] * TicksPerDay - now
       IN CASE remaining < 0 -> 10
            [] remaining >= 0 /\ remaining <= TicksPerDay -> 9
            [] remaining > TicksPerDay /\ remaining <= 3 * TicksPerDay -> 8
            [] remaining > 3 * TicksPerDay /\ remaining <= 7 * TicksPerDay -> 6
            [] remaining > 7 * TicksPerDay /\ remaining <= 14 * TicksPerDay -> 4
            [] remaining > 14 * TicksPerDay /\ remaining <= 30 * TicksPerDay -> 3
            [] remaining > 30 * TicksPerDay -> 2

\* C9: the deadline sub-score is the first-match step function of days
\* remaining; no due date scores 2 and a due date in the past scores 10.
C9_DeadlineSteps ==
  op = "calculateUrgencyScore" =>
    /\ scored.factors.deadline = ClaimedDeadline(scored.task.due_date)
    /\ scored.task.due_date = NULL => scored.factors.deadline = 2
    /\ (scored.task.due_date # NULL /\ scored.task.due_date[1] < now \div TicksPerDay)
         => scored.factors.deadline = 10

\* a due date exactly 3 days ahead, on the inclusive edge of the 8 band
C9_Witness ==
  /\ op = "calculateUrgencyScore"
  /\ scored.task.due_date # NULL
  /\ scored.task.due_date[1] * TicksPerDay - now = 3 * TicksPerDay
  /\ scored.factors.deadline = 8

ClaimedBase(category) ==
  CASE category = "exhibition" -> 5
    [] category = "education" -> 4
    [] category = "collection" -> 3
    [] category = "publication" -> 3
    [] category = "research" -> 2
    [] category = "admin" -> 2
    [] OTHER -> 2

ClaimedBonus(hours) ==
  IF hours = NULL THEN 0
  ELSE IF hours[1] > 8 * HoursScale THEN 3
  ELSE IF hours[1] > 4 * HoursScale THEN 2
  ELSE 1

\* C10: the impact sub-score equals min(10, base(category) +
\* bonus(estimated_hours)) and therefore lies in [2,10].
C10_Impact ==
  op = "calculateUrgencyScore" =>
    /\ scored.factors.impact =
         Min(10, ClaimedBase(scored.task.category) + ClaimedBonus(scored.task.estimated_hours))
    /\ scored.factors.impact >= 2
    /\ scored.factors.impact <= 10

\* exactly 8 hours stays in the +2 band
C10_Witness ==
  /\ op = "calculateUrgencyScore"
  /\ scored.task.category = "exhibition"
  /\ scored.task.estimated_hours = Some(8 * HoursScale)
  /\ scored.factors.impact = 7

\* the claimed complexity bands, each threshold strict
ClaimedComplexity(hours) ==
  IF hours = NULL THEN 2
  ELSE CASE hours[1] > 16 * HoursScale -> 8
         [] hours[1] > 8 * HoursScale /\ hours[1] <= 16 * HoursScale -> 6
         [] hours[1] > 4 * HoursScale /\ hours[1] <= 8 * HoursScale -> 4
         [] hours[1] > 2 * HoursScale /\ hours[1] <= 4 * HoursScale -> 3
         [] hours[1] <= 2 * HoursScale -> 2

\* C11: the complexity sub-score is 2 without estimated_hours, else 8 above
\* 16 hours, 6 above 8, 4 above 4, 3 above 2 and 2 up to 2 hours; exactly
\* 2, 4, 8 and 16 hours fall in the lower band.
C11_ComplexitySteps ==
  op = "calculateUrgencyScore" =>
    /\ scored.factors.complexity = ClaimedComplexity(scored.task.estimated_hours)
    /\ scored.task.estimated_hours = Some(2 * HoursScale) => scored.factors.complexity = 2
    /\ scored.task.estimated_hours = Some(4 * HoursScale) => scored.factors.complexity = 3
    /\ scored.task.estimated_hours = Some(8 * HoursScale) => scored.factors.complexity = 4
    /\ scored.task.estimated_hours = Some(16 * HoursScale) => scored.factors.complexity = 6

\* exactly 16 hours stays in the 6 band
C11_Witness ==
  /\ op = "calculateUrgencyScore"
  /\ scored.task.estimated_hours = Some(16 * HoursScale)
  /\ scored.factors.complexity = 6

\* the task with another due date, everything else identical
WithDueDate(task, d) == [task EXCEPT !.due_date = d]

\* the two tasks differ in nothing the score reads but the due date
SameButDueDate(a, b) ==
  /\ a.category = b.category
  /\ a.estimated_hours = b.estimated_hours

\* C12: among tasks with identical category and estimated_hours the
\* urgencyScore is non-decreasing in the deadline sub-score: a higher
\* deadline sub-score never gives a lower score, a nearer or passed due date
\* never gives a lower deadline sub-score or score, and the ranking never
\* places the task with the lower deadline sub-score first.
C12_MonotoneInDeadline ==
  /\ op = "calculateUrgencyScore" =>
       \A d \in DueDates :
         /\ calculateUrgencyScore(WithDueDate(scored.task, d)).factors.deadline
              >= scored.factors.deadline
              => ~DblLess(ScoreOf(WithDueDate(scored.task, d)), scored.urgencyScore)
         /\ (d # NULL /\ scored.task.due_date # NULL /\ d[1] <= scored.task.due_date[1])
              => /\ calculateUrgencyScore(WithDueDate(scored.task, d)).factors.deadline
                      >= scored.factors.deadline
                 /\ ~DblLess(ScoreOf(WithDueDate(scored.task, d)), scored.urgencyScore)
  /\ op = "calculateTopPriorityTasks" =>
       \A j, k \in DOMAIN topPriority :
         (j < k /\ SameButDueDate(topPriority[j].task, topPriority[k].task))
           => topPriority[j].factors.deadline >= topPriority[k].factors.deadline

\* an overdue task was ranked above an otherwise identical task without a
\* due date that precedes it in the input
C12_Witness ==
  /\ op = "calculateTopPriorityTasks"
  /\ \E j, k \in DOMAIN topPriority :
       /\ j < k
       /\ SameButDueDate(topPriority[j].task, topPriority[k].task)
       /\ topPriority[j].task.id > topPriority[k].task.id
       /\ topPriority[j].factors.deadline = 10
       /\ topPriority[k].factors.deadline = 2

\* an admin task with neither due_date nor estimated_hours
IsBareAdminTask(task) ==
  /\ task.category = "admin"
  /\ task.due_date = NULL
  /\ task.estimated_hours = NULL

\* the double next below 2.0, 1.9999999999999998 = 2 - 2^-52: the value of
\* 0.4*2 + 0.3*2 + 0.2*2 + 0.1*2 summed left to right
NextBelowTwo == [t |-> 20, e |-> -160]

\* every score a call has returned is at least v
NoScoreBelow(v) ==
  /\ op = "calculateUrgencyScore" => ~DblLess(scored.urgencyScore, v)
  /\ op = "calculateTopPriorityTasks" =>
       \A j \in DOMAIN topPriority : ~DblLess(topPriority[j].urgencyScore, v)

\* C13 as stated: an admin task without due_date and estimated_hours gets
\* the four sub-scores 2 and the urgencyScore exactly 2.0, and no task scores
\* below 2.0.
C13_MinimumAsStated ==
  /\ (op = "calculateUrgencyScore" /\ IsBareAdminTask(scored.task)) =>
       /\ scored.factors = [deadline |-> 2, impact |-> 2, dependency |-> 2, complexity |-> 2]
       /\ scored.urgencyScore = DblTenths(20)
  /\ NoScoreBelow(DblTenths(20))

\* C13 amended: the four sub-scores are 2 and the urgencyScore is the double
\* 1.9999999999999998, one unit in the last place below 2.0, and no task
\* scores below that value.
C13_MinimumAmended ==
  /\ (op = "calculateUrgencyScore" /\ IsBareAdminTask(scored.task)) =>
       /\ scored.factors = [deadline |-> 2, impact |-> 2, dependency |-> 2, complexity |-> 2]
       /\ scored.urgencyScore = NextBelowTwo
       /\ DblLess(scored.urgencyScore, DblTenths(20))
  /\ NoScoreBelow(NextBelowTwo)

\* the bare admin task was scored one unit in the last place below 2.0
C13_Witness ==
  /\ op = "calculateUrgencyScore"
  /\ IsBareAdminTask(scored.task)
  /\ scored.urgencyScore = NextBelowTwo

\* the claimed first-match slot of a candidate task
ClaimedSlot(task) ==
  IF /\ task.category \in {"exhibition", "research"}
     /\ task.estimated_hours # NULL
     /\ task.estimated_hours[1] > 2 * HoursScale
  THEN "morning"
  ELSE IF task.category \in {"education", "publication"} THEN "afternoon"
  ELSE "evening"

\* the candidates the claim sends to the slot, in candidate order
ClaimedSlotTasks(name) == SelectSeq(topTasks, LAMBDA t : ClaimedSlot(t) = name)

IsPrefix(s, t) == Len(s) <= Len(t) /\ s = SubSeq(t, 1, Len(s))

\* C14: slot assignment is first-match: morning iff the category is
\* exhibition or research and estimated_hours > 2, else afternoon iff the
\* category is education or publication, else evening.  In the returned
\* schedule every slot holds, in candidate order, the leading candidates
\* of those the rule sends to it, and at least one of them if there is any.
C14_FirstMatchSlot ==
  op = "generateDailySchedule" =>
    \A name \in SlotNames :
      /\ IsPrefix(schedule[name].tasks, ClaimedSlotTasks(name))
      /\ ClaimedSlotTasks(name) # <<>> => schedule[name].tasks # <<>>
      /\ \A i \in DOMAIN schedule[name].tasks : ClaimedSlot(schedule[name].tasks[i]) = name

\* an exhibition task of at most 2 hours went to the evening while a longer
\* one went to the morning and an education or publication task to the
\* afternoon
C14_Witness ==
  /\ op = "generateDailySchedule"
  /\ \E i \in DOMAIN schedule.evening.tasks :
       /\ schedule.evening.tasks[i].category = "exhibition"
       /\ HoursOrZero(schedule.evening.tasks[i]) <= 2 * HoursScale
  /\ \E i \in DOMAIN schedule.morning.tasks :
       schedule.morning.tasks[i].category = "exhibition"
  /\ Len(schedule.afternoon.tasks) > 0

\* the claimed loop on one slot: while the hours sum exceeds 3 and more
\* than one task remains, the last task is removed
RECURSIVE ClaimedBalance(_)
ClaimedBalance(ts) ==
  IF TotalOf(ts) > 3 * HoursScale /\ Len(ts) > 1
  THEN ClaimedBalance(SubSeq(ts, 1, Len(ts) - 1))
  ELSE ts

\* C15: balancing is applied to each slot independently: while the slot's
\* summed estimated_hours exceeds 3 and it holds more than one task its last
\* task is removed, and a removed task appears in no slot of the returned
\* schedule.
C15_BalanceDropsLast ==
  op = "generateDailySchedule" =>
    /\ \A name \in SlotNames :
         schedule[name].tasks = ClaimedBalance(ClaimedSlotTasks(name))
    /\ \A i \in DOMAIN topTasks :
         topTasks[i] \notin Range(ClaimedBalance(ClaimedSlotTasks(ClaimedSlot(topTasks[i]))))
           => topTasks[i] \notin Range(ScheduledTasks)

\* one slot lost its last task, which is in no slot, while another slot
\* kept all of its tasks
C15_Witness ==
  /\ op = "generateDailySchedule"
  /\ \E name, other \in SlotNames :
       /\ name # other
       /\ Len(schedule[name].tasks) < Len(ClaimedSlotTasks(name))
       /\ ClaimedSlotTasks(name)[Len(schedule[name].tasks) + 1] \notin Range(ScheduledTasks)
       /\ schedule[other].tasks # <<>>
       /\ schedule[other].tasks = ClaimedSlotTasks(other)

\* a sequence holding x when the condition holds
TagIf(cond, x) == IF cond THEN <<x>> ELSE <<>>

\* the claimed reason tags, in the order they are joined
ClaimedReasons(f) ==
  TagIf(f.deadline >= 8, "deadline_near") \o TagIf(f.impact >= 7, "high_impact")
    \o TagIf(f.dependency >= 5, "blocking") \o TagIf(f.complexity >= 6, "high_complexity")

\* the claimed band of a composite score
ClaimedBand(score) ==
  IF ~DblLess(score, DblTenths(80)) THEN "urgent"
  ELSE IF ~DblLess(score, DblTenths(60)) THEN "important"
  ELSE IF ~DblLess(score, DblTenths(40)) THEN "normal"
  ELSE "low"

\* the phrases a message carries when it carries no reason tag
FallbackPhrases == {<<"general_priority">>, <<"no_hurry">>}

\* C16 as stated: the message is banded by the score (>= 8 urgent, >= 6
\* important, >= 4 normal, else low) and in every band it carries the joined
\* reason tags, or a fallback phrase when no reason tag fired.
C16_EveryBandCarriesReasons ==
  op = "calculateUrgencyScore" =>
    /\ scored.recommendation.band = ClaimedBand(scored.urgencyScore)
    /\ ClaimedReasons(scored.factors) # <<>>
         => scored.recommendation.body = ClaimedReasons(scored.factors)
    /\ ClaimedReasons(scored.factors) = <<>>
         => scored.recommendation.body \in FallbackPhrases

\* C16 amended: the message is banded by the score as stated; the urgent and
\* important messages carry the joined reason tags, the normal message
\* carries them or the fallback phrase when none fired, and the low message
\* is a fixed phrase that carries no reason tag even when one fired.
C16_BandedMessage ==
  op = "calculateUrgencyScore" =>
    /\ scored.recommendation.band = ClaimedBand(scored.urgencyScore)
    /\ scored.recommendation.band \in {"urgent", "important"}
         => /\ scored.recommendation.body = ClaimedReasons(scored.factors)
            /\ scored.recommendation.body # <<>>
    /\ scored.recommendation.band = "normal"
         => scored.recommendation.body =
              IF ClaimedReasons(scored.factors) = <<>> THEN <<"general_priority">>
              ELSE ClaimedReasons(scored.factors)
    /\ scored.recommendation.band = "low"
         => scored.recommendation.body = <<"no_hurry">>

\* a task in the low band whose message leaves out the reason that fired
C16_Witness ==
  /\ op = "calculateUrgencyScore"
  /\ scored.recommendation.band = "low"
  /\ ClaimedReasons(scored.factors) # <<>>
  /\ scored.recommendation.body = <<"no_hurry">>

\* the energy of the slot that contains the hour, NULL outside every slot
\* (09:00-12:00 high, 13:00-17:00 medium, 17:00-18:00 low)
EnergyAt(h) ==
  IF h >= 9 /\ h < 12 THEN Some("high")
  ELSE IF h >= 13 /\ h < 17 THEN Some("medium")
  ELSE IF h >= 17 /\ h < 18 THEN Some("low")
  ELSE NULL

\* the task's profile: creative or complex work, or simple work
IsCreativeOrComplex(task) ==
  \/ task.category \in {"exhibition", "research"}
  \/ task.estimated_hours # NULL /\ task.estimated_hours[1] > 2 * HoursScale

\* the energy a profile calls for: the high-energy slot for creative or
\* complex work (the advisor sends it to "tomorrow morning"), the medium or
\* the low slot for simple work (the advisor sends it to the "afternoon")
EnergyMatches(energy, task) ==
  IF IsCreativeOrComplex(task) THEN energy = "high" ELSE energy \in {"medium", "low"}

\* C17: suggestTaskTime recommends "now" only if the energy of the slot
\* containing the current hour matches the task's creative/complexity
\* profile; in every other case it recommends tomorrow morning for a
\* creative or complex task and the afternoon for a simple one.
C17_NowOnlyOnEnergyMatch ==
  op = "suggestTaskTime" =>
    /\ suggestion.result.recommendedTime = "now"
         => /\ EnergyAt(suggestion.hour) # NULL
            /\ EnergyMatches(EnergyAt(suggestion.hour)[1], suggestion.task)
    /\ suggestion.result.recommendedTime # "now"
         => suggestion.result.recommendedTime =
              IF IsCreativeOrComplex(suggestion.task) THEN "tomorrow_morning" ELSE "afternoon"

\* the advisories of the returned schedule, as a set
Advisories == Range(schedule.aiRecommendation)

\* C18: the schedule advisory comes from independent threshold checks on the
\* balanced schedule: total hours > 8 adds the overload advisory, total
\* hours < 4 the fill-time advisory, an empty morning slot the creative-work
\* advisory, an evening slot of more than 2 tasks the trim-evening advisory;
\* every advisory whose condition holds is present and no other, and the
\* well-balanced message is returned iff none of the four conditions holds.
C18_Advisories ==
  op = "generateDailySchedule" =>
    /\ schedule.totalEstimatedHours = TotalOf(ScheduledTasks)
    /\ "overload" \in Advisories <=> TotalOf(ScheduledTasks) > 8 * HoursScale
    /\ "light_day" \in Advisories <=> TotalOf(ScheduledTasks) < 4 * HoursScale
    /\ "use_morning" \in Advisories <=> schedule.morning.tasks = <<>>
    /\ "trim_evening" \in Advisories <=> Len(schedule.evening.tasks) > 2
    /\ "well_balanced" \in Advisories <=>
         ~ \/ TotalOf(ScheduledTasks) > 8 * HoursScale
           \/ TotalOf(ScheduledTasks) < 4 * HoursScale
           \/ schedule.morning.tasks = <<>>
           \/ Len(schedule.evening.tasks) > 2
    /\ "well_balanced" \in Advisories => schedule.aiRecommendation = <<"well_balanced">>
    /\ Advisories \subseteq {"overload", "light_day", "use_morning", "trim_evening", "well_balanced"}

\* three advisories co-occur: a light day, an empty morning and three
\* evening tasks
C18_Witness ==
  /\ op = "generateDailySchedule"
  /\ schedule.aiRecommendation = <<"light_day", "use_morning", "trim_evening">>
  /\ Len(schedule.evening.tasks) = 3

\* a well-formed PriorityCalculationResult for the task
IsScoreResult(r, task) ==
  /\ r.task = task
  /\ r.factors.deadline \in 2..10
  /\ r.factors.impact \in 2..10
  /\ r.factors.dependency \in {2, 5}
  /\ r.factors.complexity \in {2, 3, 4, 6, 8}
  /\ r.recommendation.band \in {"urgent", "important", "normal", "low"}
  /\ ~DblLess(r.urgencyScore, NextBelowTwo)
  /\ ~DblLess(DblTenths(100), r.urgencyScore)

\* the documented defaults of the absent optional fields
HasDefaults(r) ==
  /\ r.task.due_date = NULL => r.factors.deadline = 2
  /\ r.task.estimated_hours = NULL =>
       /\ r.factors.complexity = 2
       /\ r.factors.impact = ClaimedBase(r.task.category)

\* C19: calculateUrgencyScore, calculateTopPriorityTasks and
\* generateDailySchedule return a result for every task list, the empty list
\* included, whatever the categories, statuses and presence of due_date and
\* estimated_hours; an absent due_date scores deadline 2, absent
\* estimated_hours give effort bonus 0 and complexity 2 and count as 0 hours
\* in the slot sums.
C19_TotalWithDefaults ==
  /\ op = "calculateUrgencyScore" =>
       /\ \E i \in DOMAIN tasks : IsScoreResult(scored, tasks[i])
       /\ HasDefaults(scored)
  /\ op = "calculateTopPriorityTasks" =>
       /\ tasks = <<>> => topPriority = <<>>
       /\ \A j \in DOMAIN topPriority :
            /\ \E i \in DOMAIN tasks : IsScoreResult(topPriority[j], tasks[i])
            /\ HasDefaults(topPriority[j])
  /\ op = "generateDailySchedule" =>
       /\ \A name \in SlotNames : \A i \in DOMAIN schedule[name].tasks :
            schedule[name].tasks[i] \in Range(tasks)
       /\ schedule.totalEstimatedHours = TotalOf(ScheduledTasks)
       /\ schedule.totalEstimatedHours >= 0
       /\ schedule.aiRecommendation # <<>>
       /\ tasks = <<>> =>
            /\ ScheduledTasks = <<>>
            /\ schedule.totalEstimatedHours = 0
            /\ schedule.aiRecommendation = <<"light_day", "use_morning">>

\* a slot holds a task without due_date and estimated_hours next to one
\* with hours, and only the latter's hours are in the total
C19_Witness ==
  /\ op = "generateDailySchedule"
  /\ \E name \in SlotNames : \E i, j \in DOMAIN schedule[name].tasks :
       /\ schedule[name].tasks[i].estimated_hours = NULL
       /\ schedule[name].tasks[i].due_date = NULL
       /\ schedule[name].tasks[j].estimated_hours # NULL
       /\ Len(ScheduledTasks) = 2
       /\ schedule.totalEstimatedHours = schedule[name].tasks[j].estimated_hours[1]

\* C21: a scoring or planning pass leaves its input unchanged: across a call
\* of calculateTopPriorityTasks or generateDailySchedule the caller's task
\* list has the same elements, with the same field values, in the same order.
C21_InputUnchanged ==
  [][(op' = "calculateTopPriorityTasks" \/ op' = "generateDailySchedule") => tasks' = tasks]_vars

\* the pass reordered its candidates and trimmed a slot, and the caller's
\* list is still in row order
C21_Witness ==
  /\ op = "generateDailySchedule"
  /\ Len(topTasks) > 1
  /\ topTasks[1].id > topTasks[2].id
  /\ Len(ScheduledTasks) < Len(topTasks)
  /\ Len(tasks) > Len(topTasks)
  /\ \A i \in DOMAIN tasks : tasks[i].id = i

\* the ids of the tasks calculateTopPriorityTasks returned
ReturnedIds == {topPriority[j].task.id : j \in DOMAIN topPriority}

\* C22: ties are ordered stably: tasks of equal urgencyScore keep their
\* input order in the result of calculateTopPriorityTasks, and when a tie
\* straddles the cut-off the tasks earlier in the input are the ones
\* returned.
C22_StableTies ==
  op = "calculateTopPriorityTasks" =>
    /\ \A j, k \in DOMAIN topPriority :
         (j < k /\ topPriority[j].urgencyScore = topPriority[k].urgencyScore)
           => topPriority[j].task.id < topPriority[k].task.id
    /\ \A i \in EligibleIndices : \A j \in DOMAIN topPriority :
         (tasks[i].id \notin ReturnedIds /\ ScoreOf(tasks[i]) = topPriority[j].urgencyScore)
           => topPriority[j].task.id < tasks[i].id

\* a tie straddles the cut-off: an eligible task left out scores the same
\* as the last task returned, which scores the same as the one before it
C22_Witness ==
  /\ op = "calculateTopPriorityTasks"
  /\ Len(topPriority) = 3
  /\ topPriority[2].urgencyScore = topPriority[3].urgencyScore
  /\ \E i \in EligibleIndices :
       /\ tasks[i].id \notin ReturnedIds
       /\ ScoreOf(tasks[i]) = topPriority[3].urgencyScore

\* the client's stream holds the state_update event of value v
HasStateUpdate(events, v) == \E i \in DOMAIN events : events[i] = StateUpdateEvent(v)

\* C23: every state change made through setState is delivered as a
\* state_update event to every client connected to GET /api/sync/stream:
\* when setState resolves, the stream of each connected client holds the
\* event of the value just set.
C23_StateUpdateDelivered ==
  [][(phase = "broadcast" /\ phase' = "idle")
       => \A c \in clients : HasStateUpdate(received'[c], stateValue[1])]_vars

\* the candidates balancing trimmed: those in no slot of the schedule
TrimmedTasks == SelectSeq(topTasks, LAMBDA t : t \notin Range(ScheduledTasks))

\* C24: totalEstimatedHours is computed after balancing: it is the sum of
\* estimated_hours (a missing value counted as 0) over exactly the tasks
\* left in the three slots, and the hours of the trimmed tasks are not in it.
C24_TotalAfterBalancing ==
  op = "generateDailySchedule" =>
    /\ schedule.totalEstimatedHours =
         TotalOf(schedule.morning.tasks) + TotalOf(schedule.afternoon.tasks)
           + TotalOf(schedule.evening.tasks)
    /\ schedule.totalEstimatedHours + TotalOf(TrimmedTasks) = TotalOf(topTasks)

\* tasks with hours were trimmed and their hours are missing from the total
C24_Witness ==
  /\ op = "generateDailySchedule"
  /\ TotalOf(TrimmedTasks) > 0
  /\ schedule.totalEstimatedHours > 0
  /\ schedule.totalEstimatedHours < TotalOf(topTasks)

\* how many times the setState in flight has invoked observer o
TimesInvoked(o) == Cardinality({i \in DOMAIN invoked : invoked[i] = o})

\* C26: each setState invokes exactly once every observer that was
\* subscribed when it began and has not been unsubscribed before its turn,
\* also when a callback calls an unsubscribe function during the
\* notification: when notifyObservers returns, every observer that was
\* subscribed at the start and still is has been invoked once, and nobody
\* else or twice.
C26_NotifiedExactlyOnce ==
  [][(phase = "notify" /\ phase' = "persist")
       => /\ \A o \in Range(snapshot) : o \in Range(observers) => TimesInvoked(o) = 1
          /\ \A o \in Range(invoked) : o \in Range(snapshot) /\ TimesInvoked(o) = 1]_vars

\* some client's stream holds the state_update event of value v
Broadcasted(v) == \E c \in Clients : HasStateUpdate(received[c], v)

\* the order of setState as claimed, on the call in flight: the value is
\* stored before any observer is invoked, the observers subscribed at the
\* start are all invoked before KV is written, and KV comes before the
\* broadcast
SetStateOrder ==
  /\ phase \in {"notify", "persist", "broadcast"} => stateValue = Some(setStates)
  /\ phase = "notify" => kv # Some(setStates) /\ ~Broadcasted(setStates)
  /\ phase = "persist" => ~Broadcasted(setStates)
  /\ phase \in {"persist", "broadcast"} =>
       \A o \in Range(snapshot) : o \in Range(observers) => o \in Range(invoked)

\* C25: setState stores the value, then invokes every subscribed observer,
\* then persists to KV, then broadcasts; an observer callback that throws
\* or a failing KV put keeps neither the remaining observers from being
\* invoked nor the broadcast from reaching the stream, and setState goes on
\* to resolve.
C25_SetStateContract ==
  [][/\ SetStateOrder'
     /\ (phase = "broadcast" /\ sseController # NULL /\ sseController[1] \in clients)
          => /\ phase' = "idle"
             /\ HasStateUpdate(received'[sseController[1]], setStates)]_vars

\* C27: the dashboard keeps a bounded set of background activities: at most
\* one auto-refresh timer and one EventSource are ever active, and exactly
\* one of each whenever no init() is pending, after any number of refresh
\* cycles.
C27_OneTimerOneEventSource ==
  /\ timers <= 1
  /\ eventSources <= 1
  /\ loading = 0 => (timers = 1 /\ eventSources = 1)

\* no reason tag fires for the sub-scores
IsUntagged(f) == f.deadline < 8 /\ f.impact < 7 /\ f.dependency < 5 /\ f.complexity < 6

\* C28: whenever the recommendation is in the urgent or important band at
\* least one reason tag fired, so the text after the band label is never
\* empty: no sub-scores with deadline < 8, impact < 7, dependency < 5 and
\* complexity < 6 give a composite score of 6 or more.
C28_BandedImpliesTagged ==
  op = "calculateUrgencyScore" =>
    /\ IsUntagged(scored.factors)
         => /\ DblLess(scored.urgencyScore, DblTenths(60))
            /\ scored.recommendation.band \in {"normal", "low"}
    /\ scored.recommendation.band \in {"urgent", "important"}
         => /\ ~IsUntagged(scored.factors)
            /\ scored.recommendation.body # <<>>

\* the untagged sub-scores closest to the important band have been scored
C28_Witness ==
  /\ op = "calculateUrgencyScore"
  /\ scored.factors = [deadline |-> 7, impact |-> 6, dependency |-> 4, complexity |-> 5]
  /\ DblGeTenths(scored.urgencyScore, 58)
  /\ scored.recommendation = [band |-> "normal", body |-> <<"general_priority">>]

\* the due date of the task has passed
IsOverdue(task) == task.due_date # NULL /\ task.due_date[1] * TicksPerDay - now < 0

\* an overdue exhibition task of more than 8 hours
IsOverdueLongExhibition(task) ==
  /\ IsOverdue(task)
  /\ task.category = "exhibition"
  /\ task.estimated_hours # NULL
  /\ task.estimated_hours[1] > 8 * HoursScale

\* the double next above 8.2, 8.200000000000001: the value of
\* 0.4*10 + 0.3*8 + 0.2*5 + 0.1*8 summed left to right
NextAboveEightPointTwo == [t |-> 82, e |-> 768]

\* a score reaches 8 only for an overdue exhibition task of more than 8
\* hours, and no score is above top
UrgentOnlyUpTo(top) ==
  op = "calculateUrgencyScore" =>
    /\ DblGeTenths(scored.urgencyScore, 80)
         => IsOverdueLongExhibition(scored.task) /\ scored.factors.deadline = 10
    /\ ~IsOverdueLongExhibition(scored.task)
         => DblLess(scored.urgencyScore, DblTenths(80))
    /\ ~DblLess(top, scored.urgencyScore)

\* C29 as stated: with the six known categories urgencyScore reaches the
\* urgent band (>= 8) only when the task is overdue, its category is
\* exhibition and its estimated_hours exceed 8; every other task scores
\* below 8, and no task scores above 8.2.
C29_UrgentAsStated == UrgentOnlyUpTo(DblTenths(82))

\* C29 amended: the urgent band is reached only by overdue exhibition tasks
\* of more than 8 hours and every other task scores below 8, but the
\* highest score, that of such a task of more than 16 hours, is
\* 8.200000000000001 in double arithmetic, one unit in the last place
\* above 8.2.
C29_UrgentAmended == UrgentOnlyUpTo(NextAboveEightPointTwo)

\* an overdue exhibition task of more than 16 hours has been scored
C29_Witness ==
  /\ op = "calculateUrgencyScore"
  /\ IsOverdueLongExhibition(scored.task)
  /\ scored.task.estimated_hours[1] > 16 * HoursScale
  /\ scored.urgencyScore = NextAboveEightPointTwo
  /\ DblLess(DblTenths(82), scored.urgencyScore)
  /\ scored.recommendation.band = "urgent"

\* the summed hours of a list of estimated_hours, in tenths of an hour
RECURSIVE ExactTenths(_)
ExactTenths(hs) == IF hs = <<>> THEN 0 ELSE OrZero(Head(hs)) + ExactTenths(Tail(hs))

\* the first n tasks of the slot
SlotPrefix(n) == SubSeq(slotHours, 1, n)

\* C30: balancing only trims tails: the balanced slot is a prefix of the
\* slot before balancing, a slot that held a task still holds its first
\* task, and the kept prefix is the longest one whose summed hours are
\* <= 3 (or the first task alone when none fits), so a task is removed only
\* if keeping it would leave the slot over the 3-hour cap.
C30_LongestPrefixKept ==
  keptHours # NULL =>
    /\ IsPrefix(keptHours[1], slotHours)
    /\ slotHours # <<>> => keptHours[1] # <<>>
    /\ Len(keptHours[1]) > 1 => ExactTenths(keptHours[1]) <= 10 * maxHoursPerSlot
    /\ Len(keptHours[1]) < Len(slotHours)
         => ExactTenths(SlotPrefix(Len(keptHours[1]) + 1)) > 10 * maxHoursPerSlot

\* the slot the loop of C15 returns: while the summed hours exceed 3 and
\* more than one task is held, the last task is removed
RECURSIVE ClaimedTrim(_)
ClaimedTrim(hs) ==
  IF ExactTenths(hs) > 10 * maxHoursPerSlot /\ Len(hs) > 1
  THEN ClaimedTrim(SubSeq(hs, 1, Len(hs) - 1))
  ELSE hs

\* C15 with decimal hours: the balanced slot is the slot from which the last
\* task was removed while its summed hours exceeded 3 and it held more than
\* one task.
C15_TrimWhileOverCap ==
  keptHours # NULL => keptHours[1] = ClaimedTrim(slotHours)
====
